---- MODULE Spec2Model ----
(***************************************************************************)
(* Verification model of the finite element notebook fem.ipynb:            *)
(* Gaussian quadrature (integration_points, integrate_on_reference_element,*)
(* integrate), the weak formulation (weak_formulation), the polynomial     *)
(* basis (polynomial_basis_function) and the Ritz assembly (ritz).         *)
(*                                                                         *)
(* The notebook computes with Python floats (IEEE-754 binary64).  A float  *)
(* is modelled exactly: a finite binary64 value is sign * m * Base^e with  *)
(* m a natural number written in limbs of 15 bits (least significant limb  *)
(* first), and every float operation is the exact operation followed by    *)
(* rounding to 53 significant bits, ties to even.  Overflow, subnormals,   *)
(* infinities and NaN are outside the model (the values stay far from      *)
(* them), and the sign of zero is not kept.                                *)
(***************************************************************************)
EXTENDS Integers, Sequences, FiniteSets, TLC

----------------------------------------------------------------------------
(* Natural numbers of any size: sequences of limbs, least significant     *)
(* first, without high zero limbs; <<>> is 0.                              *)

Base == 2^15

RECURSIVE NTrim(_)
NTrim(xs) ==
    IF xs = <<>> THEN <<>>
    ELSE IF xs[Len(xs)] = 0 THEN NTrim(SubSeq(xs, 1, Len(xs) - 1))
    ELSE xs

RECURSIVE NStrip(_)
(* the number of low zero limbs of a non-zero number *)
NStrip(xs) ==
    IF xs[1] = 0 THEN 1 + NStrip(Tail(xs)) ELSE 0

Zeros(n) == [ix \in 1..n |-> 0]

Limb(xs, ix) == IF 1 <= ix /\ ix <= Len(xs) THEN xs[ix] ELSE 0

RECURSIVE CarryOut(_, _)
(* the carry out of position ix of the limb-wise sums s (each < 2 * Base) *)
CarryOut(s, ix) ==
    IF ix = 0 THEN 0
    ELSE IF s[ix] = Base - 1 THEN CarryOut(s, ix - 1)
    ELSE IF s[ix] >= Base THEN 1
    ELSE 0

NAdd(xs, ys) ==
    LET n == IF Len(xs) >= Len(ys) THEN Len(xs) ELSE Len(ys)
        s == SubSeq([ix \in 1..n |-> Limb(xs, ix) + Limb(ys, ix)], 1, n)
    IN  IF Len(s) # n THEN <<>> ELSE
        NTrim(SubSeq([ix \in 1..(n + 1) |->
                        IF ix <= n THEN (s[ix] + CarryOut(s, ix - 1)) % Base
                        ELSE CarryOut(s, n)], 1, n + 1))

RECURSIVE BorrowOut(_, _)
(* the borrow out of position ix of the limb-wise differences t *)
BorrowOut(t, ix) ==
    IF ix = 0 THEN 0
    ELSE IF t[ix] = 0 THEN BorrowOut(t, ix - 1)
    ELSE IF t[ix] < 0 THEN 1
    ELSE 0

(* xs - ys for xs >= ys *)
NSub(xs, ys) ==
    LET n == Len(xs)
        t == SubSeq([ix \in 1..n |-> xs[ix] - Limb(ys, ix)], 1, n)
    IN  NTrim(SubSeq([ix \in 1..n |->
                        (t[ix] - BorrowOut(t, ix - 1)) % Base], 1, n))

RECURSIVE NCmpAt(_, _, _)
NCmpAt(xs, ys, ix) ==
    IF ix = 0 THEN 0
    ELSE IF xs[ix] < ys[ix] THEN -1
    ELSE IF xs[ix] > ys[ix] THEN 1
    ELSE NCmpAt(xs, ys, ix - 1)

(* -1, 0, 1 as xs <, =, > ys *)
NCmp(xs, ys) ==
    IF Len(xs) < Len(ys) THEN -1
    ELSE IF Len(xs) > Len(ys) THEN 1
    ELSE NCmpAt(xs, ys, Len(xs))

RECURSIVE ColSum(_, _, _, _)
(* column ix of xs * ys: the low halves of the limb products of weight    *)
(* ix and the high halves of those of weight ix - 1, over the limbs 1..n  *)
(* of ys                                                                   *)
ColSum(xs, ys, ix, n) ==
    IF n = 0 THEN 0
    ELSE ((Limb(xs, ix - n + 1) * ys[n]) % Base)
         + ((Limb(xs, ix - n) * ys[n]) \div Base)
         + ColSum(xs, ys, ix, n - 1)

(* xs * ys for ys the shorter factor *)
NMulCols(xs, ys) ==
    LET n == Len(xs) + Len(ys)
        s == SubSeq([ix \in 1..n |-> ColSum(xs, ys, ix, Len(ys))], 1, n)
    IN  IF Len(s) # n THEN <<>> ELSE
        NAdd(SubSeq([ix \in 1..n |-> s[ix] % Base], 1, n),
             SubSeq([ix \in 1..(n + 1) |->
                       IF ix = 1 THEN 0 ELSE s[ix - 1] \div Base], 1, n + 1))

NMul(xs, ys) ==
    IF xs = <<>> \/ ys = <<>> THEN <<>>
    ELSE IF Len(xs) >= Len(ys) THEN NMulCols(xs, ys)
    ELSE NMulCols(ys, xs)

(* xs * dv + cy for one limb dv and cy < Base *)
NMulS(xs, dv, cy) ==
    NAdd(NMul(xs, IF dv = 0 THEN <<>> ELSE <<dv>>),
         IF cy = 0 THEN <<>> ELSE <<cy>>)

RECURSIVE NPow(_, _)
NPow(xs, n) == IF n = 0 THEN <<1>> ELSE NMul(xs, NPow(xs, n - 1))

RECURSIVE NDivS(_, _)
(* <<quotient (untrimmed), remainder>> of xs by a small dv, dv * Base < 2^31 *)
NDivS(xs, dv) ==
    IF xs = <<>> THEN << <<>>, 0 >>
    ELSE LET hi  == NDivS(Tail(xs), dv)
             cur == hi[2] * Base + xs[1]
         IN  << <<cur \div dv>> \o hi[1], cur % dv >>

RECURSIVE NFromInt(_)
NFromInt(n) == IF n = 0 THEN <<>> ELSE <<n % Base>> \o NFromInt(n \div Base)

(* the number of bits of one non-zero limb *)
BitLen(x) == CHOOSE n \in 1..15 : 2^(n-1) <= x /\ x < 2^n

NBits(xs) == IF xs = <<>> THEN 0 ELSE 15 * (Len(xs) - 1) + BitLen(xs[Len(xs)])

----------------------------------------------------------------------------
(* Dyadic numbers sign * m * Base^e, kept in one form per value: m has no  *)
(* low zero limb, and zero is [neg |-> FALSE, m |-> <<>>, e |-> 0].        *)

Dy(neg, m, e) ==
    LET t == NTrim(m)
    IN  IF t = <<>> THEN [neg |-> FALSE, m |-> <<>>, e |-> 0]
        ELSE LET z == NStrip(t)
             IN  [neg |-> neg, m |-> SubSeq(t, z + 1, Len(t)), e |-> e + z]

Zero == Dy(FALSE, <<>>, 0)

FromInt(n) == Dy(n < 0, NFromInt(IF n < 0 THEN -n ELSE n), 0)

(* the magnitude of x written at exponent e <= x.e *)
MagAt(x, e) == IF x.m = <<>> THEN <<>> ELSE Zeros(x.e - e) \o x.m

XNeg(x) == Dy(~x.neg, x.m, x.e)

XAbs(x) == Dy(FALSE, x.m, x.e)

XAdd(x, y) ==
    LET e == IF x.m = <<>> THEN y.e
             ELSE IF y.m = <<>> THEN x.e
             ELSE IF x.e < y.e THEN x.e ELSE y.e
        xs == MagAt(x, e)
        ys == MagAt(y, e)
    IN  IF x.neg = y.neg THEN Dy(x.neg, NAdd(xs, ys), e)
        ELSE IF NCmp(xs, ys) >= 0 THEN Dy(x.neg, NSub(xs, ys), e)
        ELSE Dy(y.neg, NSub(ys, xs), e)

XSub(x, y) == XAdd(x, XNeg(y))

XMul(x, y) == Dy(x.neg # y.neg, NMul(x.m, y.m), x.e + y.e)

XPow(x, n) == Dy(x.neg /\ n % 2 = 1, NPow(x.m, n), x.e * n)

(* -1, 0, 1 as x <, =, > y *)
XCmp(x, y) ==
    LET dv == XSub(x, y)
    IN  IF dv.m = <<>> THEN 0 ELSE IF dv.neg THEN -1 ELSE 1

XLt(x, y) == XCmp(x, y) < 0

XLe(x, y) == XCmp(x, y) <= 0

----------------------------------------------------------------------------
(* binary64 rounding: 53 significant bits, round to nearest, ties to even. *)
(* sticky says that the exact value is a little above m (bits lost by an   *)
(* earlier floor).                                                         *)

RoundMag(m, sticky) ==
    LET t == NBits(m) - 53
        lq == t \div 15
        lr == t % 15
        lowz == \A ix \in 1..lq : m[ix] = 0
        half == IF lr >= 1 THEN (m[lq+1] \div 2^(lr-1)) % 2
                ELSE (m[lq] \div 2^14) % 2
        rest == IF lr >= 1 THEN (m[lq+1] % 2^(lr-1)) # 0 \/ ~lowz
                ELSE (m[lq] % 2^14) # 0 \/ ~(\A ix \in 1..(lq-1) : m[ix] = 0)
        lsb  == (m[lq+1] \div 2^lr) % 2
        kept == [ix \in 1..Len(m) |->
                    IF ix <= lq THEN 0
                    ELSE IF ix = lq + 1 THEN m[ix] - (m[ix] % 2^lr)
                    ELSE m[ix]]
        up   == half = 1 /\ (rest \/ sticky \/ lsb = 1)
    IN  IF t <= 0 THEN m
        ELSE IF up THEN NAdd(kept, Zeros(lq) \o <<2^lr>>)
        ELSE kept

(* TRUE; it makes TLC evaluate x here, as Python evaluates the operands    *)
(* of an operator before it applies the operator                           *)
Evaluated(x) == x.neg \in BOOLEAN

RN(x) == IF Evaluated(x) THEN Dy(x.neg, RoundMag(x.m, FALSE), x.e) ELSE x

(* Python float operators: + - * on two floats, x / 2., x ** n *)
FAdd(x, y) == IF Evaluated(x) /\ Evaluated(y) THEN RN(XAdd(x, y)) ELSE Zero

FSub(x, y) == IF Evaluated(x) /\ Evaluated(y) THEN RN(XSub(x, y)) ELSE Zero

FMul(x, y) == IF Evaluated(x) /\ Evaluated(y) THEN RN(XMul(x, y)) ELSE Zero

FHalf(x) == IF Evaluated(x) THEN Dy(x.neg, NMulS(x.m, 2^14, 0), x.e - 1) ELSE Zero

(* a faulty power: x*n in place of x**n *)
FPow_as_product(x, n) == IF Evaluated(x) THEN RN(XMul(x, FromInt(n))) ELSE Zero

FPow(x, n) == IF Evaluated(x) THEN RN(XPow(x, n)) ELSE Zero

----------------------------------------------------------------------------
(* A decimal literal 0.dddd dddd ... of the source, given as its groups of *)
(* four digits, most significant first: the nearest binary64 value, as     *)
(* Python's parser yields it.                                              *)

RECURSIVE DecNat(_)
DecNat(g) ==
    IF g = <<>> THEN <<>>
    ELSE NMulS(DecNat(SubSeq(g, 1, Len(g) - 1)), 10000, g[Len(g)])

RECURSIVE DivPow(_, _)
(* <<floor(xs / 10000^n), whether a remainder was dropped>> *)
DivPow(xs, n) ==
    IF n = 0 THEN <<xs, FALSE>>
    ELSE LET dv == NDivS(xs, 10000)
             lr == DivPow(NTrim(dv[1]), n - 1)
         IN  <<lr[1], lr[2] \/ dv[2] # 0>>

(* a faulty conversion: one digit group too few in the divisor *)
DecShifted(neg, g) ==
    LET lq == DivPow(Zeros(6) \o DecNat(g), Len(g) - 1)
    IN  Dy(neg, RoundMag(lq[1], lq[2]), -6)

Dec(neg, g) ==
    LET lq == DivPow(Zeros(6) \o DecNat(g), Len(g))
    IN  Dy(neg, RoundMag(lq[1], lq[2]), -6)

----------------------------------------------------------------------------
(* The quadrature table (fem.ipynb, integration_points): order |-> the     *)
(* list of [abscissa, weight] pairs, in the order of the source.           *)

integration_points ==
    [o \in {1, 3, 5, 7} |->
       CASE o = 1 -> << <<FromInt(0), FromInt(2)>> >>
         [] o = 3 -> << <<Dec(TRUE,  <<5773, 5026, 9189, 6250>>), FromInt(1)>>,
                        <<Dec(FALSE, <<5773, 5026, 9189, 6250>>), FromInt(1)>> >>
         [] o = 5 -> << <<Dec(TRUE,  <<7745, 9666, 9241, 4830>>),
                          Dec(FALSE, <<5555, 5555, 5555, 5560>>)>>,
                        <<FromInt(0),
                          Dec(FALSE, <<8888, 8888, 8888, 8890>>)>>,
                        <<Dec(FALSE, <<7745, 9666, 9241, 4830>>),
                          Dec(FALSE, <<5555, 5555, 5555, 5560>>)>> >>
         [] o = 7 -> << <<Dec(TRUE,  <<8611, 3631, 1594, 0520>>),
                          Dec(FALSE, <<3478, 5484, 5137, 4540>>)>>,
                        <<Dec(TRUE,  <<3399, 8104, 3584, 8560>>),
                          Dec(FALSE, <<6521, 4515, 4862, 5450>>)>>,
                        <<Dec(FALSE, <<8611, 3631, 1594, 0520>>),
                          Dec(FALSE, <<3478, 5484, 5137, 4540>>)>>,
                        <<Dec(FALSE, <<3399, 8104, 3584, 8560>>),
                          Dec(FALSE, <<6521, 4515, 4862, 5450>>)>> >>]

----------------------------------------------------------------------------
(* Callables.  A Python function value is a record: its kind and what the  *)
(* closure captured.  Apply(g, x) is the call g(x) on a float x.           *)
(*   const  lambda x: v            (p = lambda x: 0, q = r = lambda x: 1)  *)
(*   id     lambda x: x                                                    *)
(*   phi    lambda x: x**k         (polynomial_basis_function, and the     *)
(*                                  integrand of the quadrature test cell) *)
(*   dphi   lambda x: k * x**(k-1) (polynomial_basis_function)             *)
(*   a_int  the integrand of a     (weak_formulation)                      *)
(*   l_int  the integrand of l     (weak_formulation)                      *)
(*   t_int  lambda x: du_dx(x)*w(x)  (the integrand of a transport form,   *)
(*                                  a caller's form that is not symmetric) *)

Const(v) == [kind |-> "const", v |-> v]

Id == [kind |-> "id"]

RECURSIVE Apply(_, _)
Apply(g, x) ==
    CASE ~Evaluated(x)    -> Zero
      [] g.kind = "const" -> FromInt(g.v)
      [] g.kind = "id"    -> x
      [] g.kind = "phi"   -> FPow(x, g.k)
      [] g.kind = "dphi"  -> FMul(FromInt(g.k), FPow(x, g.k - 1))
      [] g.kind = "a_int" ->
           FAdd(FMul(FMul(Apply(g.p, x), Apply(g.u, x)), Apply(g.w, x)),
                FMul(FMul(Apply(g.q, x), Apply(g.du_dx, x)), Apply(g.dw_dx, x)))
      [] g.kind = "l_int" -> FMul(Apply(g.r, x), Apply(g.w, x))
      [] g.kind = "t_int" -> FMul(Apply(g.du_dx, x), Apply(g.w, x))

----------------------------------------------------------------------------
(* integrate_on_reference_element and integrate                           *)

RECURSIVE SumFrom(_, _, _)
(* Python's sum(): the terms added from the left, starting from 0 *)
SumFrom(terms, n, acc) ==
    IF n > Len(terms) \/ ~Evaluated(acc) THEN acc
    ELSE SumFrom(terms, n + 1, FAdd(acc, terms[n]))

(* a faulty map: the two halvings forgotten *)
T_no_half(dom, xi) ==
    FAdd(FMul(FromInt(dom[1]), FSub(FromInt(1), xi)),
         FMul(FromInt(dom[2]), FAdd(FromInt(1), xi)))

(* a faulty Jacobian: b - a, the halving forgotten *)
J_full_length(dom, xi) == FromInt(dom[2] - dom[1])

(* x = T(xi) = a*(1 - xi)/2. + b*(1 + xi)/2.  for the domain (a, b) = dom *)
T(dom, xi) ==
    FAdd(FHalf(FMul(FromInt(dom[1]), FSub(FromInt(1), xi))),
         FHalf(FMul(FromInt(dom[2]), FAdd(FromInt(1), xi))))

(* a faulty Jacobian: |b - a|/2. *)
J_abs(dom, xi) ==
    FHalf(FromInt(IF dom[2] >= dom[1] THEN dom[2] - dom[1] ELSE dom[1] - dom[2]))

(* J(xi) = (b-a)/2. *)
J(dom, xi) == FHalf(FromInt(dom[2] - dom[1]))

(* f_hat = lambda xi: f(T(xi)) * J(xi) *)
f_hat(dom, g, xi) == FMul(Apply(g, T(dom, xi)), J(dom, xi))

(* sum(w_k * f(xi_k) for xi_k, w_k in integration_points), f = f_hat *)
integrate_on_reference_element(points, dom, g) ==
    SumFrom([n \in 1..Len(points) |->
                FMul(points[n][2], f_hat(dom, g, points[n][1]))],
            1, Zero)

integrate(points, dom, g) == integrate_on_reference_element(points, dom, g)

(* the arguments with which integrate calls g *)
EvalPoints(points, dom) == {T(dom, points[n][1]) : n \in 1..Len(points)}

----------------------------------------------------------------------------
(* State.                                                                  *)
(*   L, p, q, r, c, d   the problem data handed to weak_formulation        *)
(*   order              the quadrature order of the integrator             *)
(*   wf                 the pair of forms handed to ritz: "weak" is the    *)
(*                      pair built by weak_formulation, "transport" a      *)
(*                      caller's pair whose bilinear form is not symmetric *)
(*   size, basis        the number of basis functions asked for, and the   *)
(*                      list polynomial_basis                              *)
(*   pc, i, j, A, b     ritz: its position, loop indices and arrays        *)
(*   evals              the arguments with which the latest call of a form *)
(*                      or of integrate called the functions it was given  *)
(*   integrand, domain, value   the quadrature test cell: the function     *)
(*                      integrated, the domain, and the printed value      *)
(*   calls              how many times ritz has called a for each entry    *)
(*                      (i, j) and l for each entry i, storing the value   *)
(*                      in that entry                                      *)
(*   forms_before       when the caller has handed weak_formulation        *)
(*                      another c: the values that the forms built for the *)
(*                      previous c take on the pairs of the basis          *)

VARIABLES L, p, q, r, c, d, order, wf, size, basis, pc, i, j, A, b, evals,
          integrand, domain, value, calls, forms_before

vars == <<L, p, q, r, c, d, order, wf, size, basis, pc, i, j, A, b, evals,
          integrand, domain, value, calls, forms_before>>

(* what np.empty leaves in an entry that was not written yet *)
Empty == [kind |-> "empty"]

None == "none"

----------------------------------------------------------------------------
(* polynomial_basis_function and polynomial_basis                         *)

polynomial_basis_function(n) ==
    << [kind |-> "phi", k |-> n], [kind |-> "dphi", k |-> n] >>

(* a faulty basis: range(n) in place of range(1, n + 1) *)
polynomial_basis_from_0(n) == [ix \in 1..n |-> polynomial_basis_function(ix - 1)]

(* [polynomial_basis_function(k) for k in range(1, n + 1)] *)
polynomial_basis(n) == [ix \in 1..n |-> polynomial_basis_function(ix)]

----------------------------------------------------------------------------
(* weak_formulation: the closures a and l over integrate, L, p, q, r, d   *)

(* a faulty integrator: the two-point rule in place of the chosen one *)
integrator_order3(dom, g) == integrate(integration_points[3], dom, g)

(* integrator = lambda domain, f: integrate(integration_points[order], domain, f) *)
integrator(dom, g) == integrate(integration_points[order], dom, g)

(* the call g(n) on a Python int n: int arithmetic, exact *)
ApplyInt(g, n) ==
    CASE g.kind = "const" -> FromInt(g.v)
      [] g.kind = "id"    -> FromInt(n)
      [] g.kind = "phi"   -> XPow(FromInt(n), g.k)
      [] g.kind = "dphi"  -> XMul(FromInt(g.k), XPow(FromInt(n), g.k - 1))

(* a faulty integrand of a: q(x)*du_dx(x)*w(x) for the second term *)
a_integrand_mixed(u, w, du_dx, dw_dx) ==
    [kind |-> "a_int", p |-> p, q |-> q,
     u |-> u, w |-> w, du_dx |-> du_dx, dw_dx |-> w]

a_integrand(u, w, du_dx, dw_dx) ==
    [kind |-> "a_int", p |-> p, q |-> q,
     u |-> u, w |-> w, du_dx |-> du_dx, dw_dx |-> dw_dx]

a(u, w, du_dx, dw_dx) == integrator(<<0, L>>, a_integrand(u, w, du_dx, dw_dx))

(* a faulty integrand of l: p(x)*w(x) *)
l_integrand_p(w) == [kind |-> "l_int", r |-> p, w |-> w]

l_integrand(w) == [kind |-> "l_int", r |-> r, w |-> w]

(* a faulty boundary term: d*w(0) *)
boundary_term_at_0(w) == RN(XMul(FromInt(d), ApplyInt(w, 0)))

(* d*w(L): ints, exact, made a float by the sum *)
boundary_term(w) == RN(XMul(FromInt(d), ApplyInt(w, L)))

(* a linear form that depends on c: l(w) - a(u0, w) for u0: x -> c *)
l_shifted(w, dw_dx) ==
    FSub(FAdd(boundary_term(w), integrator(<<0, L>>, l_integrand(w))),
         a(Const(c), w, Const(0), dw_dx))

l(w, dw_dx) == FAdd(boundary_term(w), integrator(<<0, L>>, l_integrand(w)))

(* a caller's bilinear form that is not symmetric:                         *)
(* integrate((0, L), lambda x: du_dx(x)*w(x))                              *)
transport_a(u, w, du_dx, dw_dx) ==
    integrator(<<0, L>>, [kind |-> "t_int", du_dx |-> du_dx, w |-> w])

(* the pair (a, l) that ritz unpacks from its first argument *)
form_a(u, w, du_dx, dw_dx) ==
    IF wf = "weak" THEN a(u, w, du_dx, dw_dx)
    ELSE transport_a(u, w, du_dx, dw_dx)

form_l(w, dw_dx) == l(w, dw_dx)

----------------------------------------------------------------------------
(* ritz                                                                    *)

(* a faulty size: at least one degree of freedom *)
n_dof_at_least_1 == IF Len(basis) = 0 THEN 1 ELSE Len(basis)

n_dof == Len(basis)

(* a faulty entry: the trial and test slots exchanged *)
ritz_entry_swapped(ii, jj) ==
    form_a(basis[ii + 1][1], basis[jj + 1][1], basis[ii + 1][2], basis[jj + 1][2])

(* a faulty entry: below the diagonal the entry is copied from its mirror  *)
(* image instead of being computed by a call of a                         *)
ritz_entry_by_symmetry(ii, jj) ==
    IF jj < ii
    THEN A[jj][ii]
    ELSE form_a(basis[jj + 1][1], basis[ii + 1][1], basis[jj + 1][2], basis[ii + 1][2])

(* A[i, j] = a(phi_j, phi_i, dphi_j_dx, dphi_i_dx), indices from 0 *)
ritz_entry(ii, jj) ==
    form_a(basis[jj + 1][1], basis[ii + 1][1], basis[jj + 1][2], basis[ii + 1][2])

(* b[i] = l(phi_i, dphi_i_dx) *)
ritz_rhs(ii) == form_l(basis[ii + 1][1], basis[ii + 1][2])

(* polynomial_basis = [...] *)
MakeBasis ==
    /\ pc = "basis"
    /\ basis' = polynomial_basis(size)
    /\ pc' = "ritz"
    /\ UNCHANGED <<L, p, q, r, c, d, order, wf, size, i, j, A, b, evals,
                   integrand, domain, value, calls, forms_before>>

(* n_dof = len(basis); A = np.empty((n_dof, n_dof)); b = np.empty(n_dof) *)
RitzInit ==
    /\ pc = "ritz"
    /\ A' = [ii \in 0..(n_dof - 1) |-> [jj \in 0..(n_dof - 1) |-> Empty]]
    /\ b' = [ii \in 0..(n_dof - 1) |-> Empty]
    /\ i' = 0
    /\ j' = 0
    /\ calls' = [a |-> [ii \in 0..(n_dof - 1) |-> [jj \in 0..(n_dof - 1) |-> 0]],
                 l |-> [ii \in 0..(n_dof - 1) |-> 0]]
    /\ pc' = "loop"
    /\ UNCHANGED <<L, p, q, r, c, d, order, wf, size, basis, evals,
                   integrand, domain, value, forms_before>>

(* the body of the inner loop *)
RitzEntry ==
    /\ pc = "loop"
    /\ i < n_dof
    /\ j < n_dof
    /\ A' = [A EXCEPT ![i][j] = ritz_entry(i, j)]
    /\ j' = j + 1
    /\ evals' = EvalPoints(integration_points[order], <<0, L>>)
    /\ calls' = [calls EXCEPT !.a[i][j] = @ + 1]
    /\ UNCHANGED <<L, p, q, r, c, d, order, wf, size, basis, pc, i, b,
                   integrand, domain, value, forms_before>>

(* after the inner loop: b[i] = l(...), and the next row *)
RitzRhs ==
    /\ pc = "loop"
    /\ i < n_dof
    /\ j = n_dof
    /\ b' = [b EXCEPT ![i] = ritz_rhs(i)]
    /\ i' = i + 1
    /\ j' = 0
    /\ evals' = {FromInt(L)} \cup EvalPoints(integration_points[order], <<0, L>>)
    /\ calls' = [calls EXCEPT !.l[i] = @ + 1]
    /\ UNCHANGED <<L, p, q, r, c, d, order, wf, size, basis, pc, A,
                   integrand, domain, value, forms_before>>

(* return A, b *)
RitzReturn ==
    /\ pc = "loop"
    /\ i = n_dof
    /\ pc' = "done"
    /\ UNCHANGED <<L, p, q, r, c, d, order, wf, size, basis, i, j, A, b, evals,
                   integrand, domain, value, calls, forms_before>>

----------------------------------------------------------------------------
(* The inputs.                                                             *)

(* the largest basis of the sweep over problems *)
MaxSize == 2

Orders == DOMAIN integration_points

(* the heat equation example: L = 10, p = 0, q = r = 1, c = d = 1,        *)
(* order 7, polynomial_basis of range(1, 5)                                *)
Example ==
    [L |-> 10, p |-> Const(0), q |-> Const(1), r |-> Const(1), c |-> 1, d |-> 1,
     order |-> 7, wf |-> "weak", size |-> 4]

Sweep ==
    [L : {1, 3}, p : {Const(0), Const(1), Id}, q : {Const(1), Id},
     r : {Const(0), Const(1)}, c : {0, 1}, d : {0, 2},
     order : {7}, wf : {"weak"}, size : {MaxSize}]
    \cup
    [L : {3}, p : {Id}, q : {Const(1)}, r : {Const(1)}, c : {1}, d : {2},
     order : Orders, wf : {"weak", "transport"}, size : 0..MaxSize]

Problems == {Example} \cup Sweep

(* weak_formulation called once only *)
NoForms == [built |-> FALSE]

(* no call of a form made yet *)
NoCalls == [a |-> <<>>, l |-> <<>>]

Init ==
    /\ \E pb \in Problems :
          /\ L = pb.L /\ p = pb.p /\ q = pb.q /\ r = pb.r
          /\ c = pb.c /\ d = pb.d
          /\ order = pb.order /\ wf = pb.wf /\ size = pb.size
    /\ basis = <<>>
    /\ pc = "basis"
    /\ i = 0
    /\ j = 0
    /\ A = <<>>
    /\ b = <<>>
    /\ evals = {}
    /\ integrand = None
    /\ domain = None
    /\ value = None
    /\ calls = NoCalls
    /\ forms_before = NoForms

Next == MakeBasis \/ RitzInit \/ RitzEntry \/ RitzRhs \/ RitzReturn

Spec == Init /\ [][Next]_vars

----------------------------------------------------------------------------
(* The quadrature test cell:                                              *)
(*   for k in range(8):                                                    *)
(*       for order, integ_points in integration_points.items():           *)
(*           value = integrate(integ_points, (0, 1), lambda x: x**k)       *)
(* One behaviour is one pass of the inner body.  Besides (0, 1) and x**k  *)
(* the domain ranges over the pairs of small integers and over (0, 10),   *)
(* the domain of the example, and the integrand over the derivatives      *)
(* k*x**(k-1) of the basis functions and over integrands of the form a.    *)

(* the largest endpoint of the swept domains *)
MaxEnd == 3

(* range(8) *)
TestDegrees == 8

Ends == (0 - MaxEnd)..MaxEnd

Domains == (Ends \X Ends) \cup {<<0, 1>>, <<0, Example.L>>}

(* integrands of a, as weak_formulation builds them, on pairs of basis     *)
(* functions and for coefficients 1, -1 and x                              *)
FormIntegrands ==
    {[kind |-> "a_int", p |-> cp, q |-> cq,
      u |-> polynomial_basis_function(pr[1])[1],
      w |-> polynomial_basis_function(pr[2])[1],
      du_dx |-> polynomial_basis_function(pr[1])[2],
      dw_dx |-> polynomial_basis_function(pr[2])[2]] :
        cp \in {Const(1), Id}, cq \in {Const(1), Const(-1)},
        pr \in {<<1, 2>>, <<3, 2>>}}

Integrands ==
    {[kind |-> "phi", k |-> n] : n \in 0..(TestDegrees - 1)}
    \cup {[kind |-> "dphi", k |-> n] : n \in 1..Example.size}
    \cup FormIntegrands

InitQuad ==
    /\ order \in Orders
    /\ domain \in Domains
    /\ integrand \in Integrands
    /\ value = None
    /\ evals = {}
    /\ pc = "test"
    /\ L = Example.L /\ p = Example.p /\ q = Example.q /\ r = Example.r
    /\ c = Example.c /\ d = Example.d
    /\ wf = Example.wf /\ size = Example.size
    /\ basis = <<>>
    /\ i = 0
    /\ j = 0
    /\ A = <<>>
    /\ b = <<>>
    /\ calls = NoCalls
    /\ forms_before = NoForms

(* value = integrate(integ_points, domain, integrand) *)
TestCell ==
    /\ pc = "test"
    /\ value' = integrate(integration_points[order], domain, integrand)
    /\ evals' = EvalPoints(integration_points[order], domain)
    /\ pc' = "printed"
    /\ UNCHANGED <<L, p, q, r, c, d, order, wf, size, basis, i, j, A, b,
                   integrand, domain, calls, forms_before>>

NextQuad == TestCell

SpecQuad == InitQuad /\ [][NextQuad]_vars

----------------------------------------------------------------------------
(* Properties.  Comparisons of floats with reference values are made in    *)
(* exact arithmetic on the values the floats hold.                         *)

Ten(n) == XPow(FromInt(10), n)

(* |x - num/den| <= (num/den) / 10^digits, for num >= 0 and den > 0 *)
WithinRel(x, num, den, digits) ==
    XLe(XMul(XAbs(XSub(XMul(x, FromInt(den)), FromInt(num))), Ten(digits)),
        FromInt(num))

(* |x - y| <= (1 + |y|) / 10^digits *)
Close(x, y, digits) ==
    XLe(XMul(XAbs(XSub(x, y)), Ten(digits)), XAdd(FromInt(1), XAbs(y)))

Rows == 0..(size - 1)

(* C1: ritz returns an n-by-n matrix A and a length-n vector b, n the      *)
(* length of the basis, with A[i][j] the value of a called with basis      *)
(* function j in the trial slot and basis function i in the test slot, and *)
(* b[i] the value of l on basis function i, for a symmetric form and for   *)
(* one that is not symmetric.                                              *)
C1_ritz_fills_by_index ==
    pc = "done" =>
        /\ n_dof = size
        /\ DOMAIN A = Rows
        /\ DOMAIN b = Rows
        /\ \A ii \in Rows :
              /\ DOMAIN A[ii] = Rows
              /\ b[ii] = form_l(basis[ii + 1][1], basis[ii + 1][2])
              /\ \A jj \in Rows :
                    A[ii][jj] = form_a(basis[jj + 1][1], basis[ii + 1][1],
                                       basis[jj + 1][2], basis[ii + 1][2])

(* ritz has returned for a form that is not symmetric, and the matrix shows it *)
C1_witness ==
    /\ pc = "done"
    /\ wf = "transport"
    /\ size = 2
    /\ A[0][1] # A[1][0]
    /\ A[0][1] = transport_a(basis[2][1], basis[1][1], basis[2][2], basis[1][2])


----------------------------------------------------------------------------
(* The polynomial a callable computes: its integer coefficients, the       *)
(* coefficient of x^(n-1) at position n; and the exact value of its        *)
(* integral, as a multiple of 1/Factorial(TestDegrees).                    *)

PolyGet(cs, n) == IF n <= Len(cs) THEN cs[n] ELSE 0

PolyAdd(xs, ys) ==
    [n \in 1..(IF Len(xs) >= Len(ys) THEN Len(xs) ELSE Len(ys)) |->
        PolyGet(xs, n) + PolyGet(ys, n)]

RECURSIVE ConvAt(_, _, _, _)
ConvAt(xs, ys, n, m) ==
    IF m = 0 THEN 0
    ELSE PolyGet(xs, m) * PolyGet(ys, n + 1 - m) + ConvAt(xs, ys, n, m - 1)

PolyMul(xs, ys) == [n \in 1..(Len(xs) + Len(ys) - 1) |-> ConvAt(xs, ys, n, n)]

RECURSIVE Poly(_)
Poly(g) ==
    CASE g.kind = "const" -> <<g.v>>
      [] g.kind = "id"    -> <<0, 1>>
      [] g.kind = "phi"   -> [n \in 1..(g.k + 1) |-> IF n = g.k + 1 THEN 1 ELSE 0]
      [] g.kind = "dphi"  -> [n \in 1..g.k |-> IF n = g.k THEN g.k ELSE 0]
      [] g.kind = "a_int" ->
           PolyAdd(PolyMul(PolyMul(Poly(g.p), Poly(g.u)), Poly(g.w)),
                   PolyMul(PolyMul(Poly(g.q), Poly(g.du_dx)), Poly(g.dw_dx)))
      [] g.kind = "l_int" -> PolyMul(Poly(g.r), Poly(g.w))
      [] g.kind = "t_int" -> PolyMul(Poly(g.du_dx), Poly(g.w))

RECURSIVE PolyDegree(_, _)
PolyDegree(cs, n) ==
    IF n = 0 THEN 0 ELSE IF cs[n] # 0 THEN n - 1 ELSE PolyDegree(cs, n - 1)

Degree(g) == PolyDegree(Poly(g), Len(Poly(g)))

RECURSIVE Factorial(_)
Factorial(n) == IF n = 0 THEN 1 ELSE n * Factorial(n - 1)

AbsInt(n) == IF n < 0 THEN 0 - n ELSE n

(* max(1, |a|, |b|) of the domain (a, b) *)
MaxAbs(dom) ==
    LET m == IF AbsInt(dom[1]) >= AbsInt(dom[2]) THEN AbsInt(dom[1]) ELSE AbsInt(dom[2])
    IN  IF m >= 1 THEN m ELSE 1

RECURSIVE ExactSum(_, _, _)
(* Factorial(TestDegrees) times the integral of the terms 1..n over dom *)
ExactSum(cs, dom, n) ==
    IF n = 0 THEN Zero
    ELSE XAdd(XMul(FromInt(cs[n] * (Factorial(TestDegrees) \div n)),
                   XSub(XPow(FromInt(dom[2]), n), XPow(FromInt(dom[1]), n))),
              ExactSum(cs, dom, n - 1))

RECURSIVE ScaleSum(_, _, _)
(* sum of |c_m| * max(1, |a|, |b|)^(m+1) over the terms 1..n *)
ScaleSum(cs, dom, n) ==
    IF n = 0 THEN Zero
    ELSE XAdd(XMul(FromInt(AbsInt(cs[n])), XPow(FromInt(MaxAbs(dom)), n)),
              ScaleSum(cs, dom, n - 1))

(* Factorial(TestDegrees) * 10^10 * |v - integral of g over dom| *)
QuadError(g, dom, v) ==
    XMul(XAbs(XSub(XMul(v, FromInt(Factorial(TestDegrees))),
                   ExactSum(Poly(g), dom, Len(Poly(g))))),
         Ten(10))

(* the test cell has run on an interval a < b with a polynomial of degree  *)
(* at most the order of the rule                                           *)
ExactCase ==
    /\ pc = "printed"
    /\ domain[1] < domain[2]
    /\ Degree(integrand) <= order

(* C2, as amended: for every tabulated order k, every polynomial           *)
(* f = sum c_m x^m of degree <= k and every interval a < b, integrate      *)
(* differs from the exact integral by less than                            *)
(* 1e-10 * sum |c_m| * max(1, |a|, |b|)^(m+1); on an interval inside       *)
(* [-1, 1] and for sum |c_m| = 1 that is the absolute bound 1e-10.         *)
C2_quadrature_exact_scaled ==
    ExactCase =>
        XLt(QuadError(integrand, domain, value),
            XMul(FromInt(Factorial(TestDegrees)),
                 ScaleSum(Poly(integrand), domain, Len(Poly(integrand)))))

(* the order-7 rule has integrated x^7 over (0, 10), with an error of more *)
(* than 1e-10 and less than the scaled bound                               *)
C2_witness ==
    /\ ExactCase
    /\ order = 7
    /\ domain = <<0, 10>>
    /\ integrand = [kind |-> "phi", k |-> 7]
    /\ XLt(FromInt(Factorial(TestDegrees)), QuadError(integrand, domain, value))

(* C2, as stated: for every tabulated order k, every polynomial of degree  *)
(* <= k and every interval a < b, integrate differs from the exact         *)
(* integral by less than 1e-10 in absolute value.                          *)
C2_quadrature_exact_absolute ==
    ExactCase =>
        XLt(QuadError(integrand, domain, value), FromInt(Factorial(TestDegrees)))


----------------------------------------------------------------------------
(* the particular function u0: x -> c and its derivative *)
u0 == Const(c)

du0_dx == Const(0)

(* C3: with u0 the constant function x -> c, the right-hand side that ritz *)
(* assembles from weak_formulation is the shifted one,                     *)
(* b[i] = l(phi_i) - a(u0, phi_i), so that u = u0 + sum x_j phi_j          *)
(* satisfies a(u, phi_i) = l(phi_i) when A x = b.                          *)
C3_rhs_is_shifted ==
    (pc = "done" /\ wf = "weak") =>
        \A ii \in Rows :
            Close(b[ii],
                  XSub(l(basis[ii + 1][1], basis[ii + 1][2]),
                       a(u0, basis[ii + 1][1], du0_dx, basis[ii + 1][2])),
                  9)


----------------------------------------------------------------------------
(* The heat equation example.                                              *)

IsExample ==
    [L |-> L, p |-> p, q |-> q, r |-> r, c |-> c, d |-> d,
     order |-> order, wf |-> wf, size |-> size] = Example

(* the matrix and vector of scenario 1, each entry as <<numerator, denominator>> *)
expected_A ==
    << << <<10, 1>>, <<100, 1>>, <<1000, 1>>, <<10000, 1>> >>,
       << <<100, 1>>, <<133333, 100>>, <<15000, 1>>, <<160000, 1>> >>,
       << <<1000, 1>>, <<15000, 1>>, <<180000, 1>>, <<2000000, 1>> >>,
       << <<10000, 1>>, <<160000, 1>>, <<2000000, 1>>, <<228571429, 10>> >> >>

expected_b == << <<60, 1>>, <<43333, 100>>, <<3500, 1>>, <<30000, 1>> >>

(* C4: in the example (L = 10, p = 0, q = r = 1, c = d = 1, order 7, basis *)
(* x, x^2, x^3, x^4) ritz returns the matrix and vector of scenario 1,     *)
(* every entry within the relative tolerance 1e-3, and within that         *)
(* tolerance of the exact values i*j*10^(i+j-1)/(i+j-1) and                *)
(* 10^i + 10^(i+1)/(i+1), i and j counted from 1.                          *)
C4_example_system ==
    (pc = "done" /\ IsExample) =>
        \A ii \in 1..4 :
            /\ WithinRel(b[ii - 1], expected_b[ii][1], expected_b[ii][2], 3)
            /\ WithinRel(b[ii - 1], 10^ii * (ii + 1) + 10^(ii + 1), ii + 1, 3)
            /\ \A jj \in 1..4 :
                  /\ WithinRel(A[ii - 1][jj - 1],
                               expected_A[ii][jj][1], expected_A[ii][jj][2], 3)
                  /\ WithinRel(A[ii - 1][jj - 1],
                               ii * jj * 10^(ii + jj - 1), ii + jj - 1, 3)

(* ritz has returned the 4-by-4 system of the example *)
C4_witness ==
    /\ pc = "done"
    /\ IsExample
    /\ DOMAIN A = 0..3
    /\ WithinRel(A[3][3], 228571429, 10, 3)
    /\ WithinRel(b[1], 43333, 100, 3)


----------------------------------------------------------------------------
(* x_ = np.linalg.solve(A, b) and u.  The solution of A x = b is taken     *)
(* exactly, by Cramer's rule on the values the floats hold: component k    *)
(* is solve(M, v).num[k] / solve(M, v).den.                                *)

RECURSIVE XSumSeq(_, _)
XSumSeq(xs, n) == IF n = 0 THEN Zero ELSE XAdd(XSumSeq(xs, n - 1), xs[n])

Minor(M, n) ==
    [rr \in 1..(Len(M) - 1) |->
        [cc \in 1..(Len(M) - 1) |-> M[rr + 1][IF cc < n THEN cc ELSE cc + 1]]]

RECURSIVE Det(_)
(* the determinant, expanded along the first row *)
Det(M) ==
    IF Len(M) = 1 THEN M[1][1]
    ELSE XSumSeq([n \in 1..Len(M) |->
                     IF n % 2 = 1 THEN XMul(M[1][n], Det(Minor(M, n)))
                     ELSE XNeg(XMul(M[1][n], Det(Minor(M, n))))],
                 Len(M))

ReplaceCol(M, n, v) ==
    [rr \in 1..Len(M) |-> [cc \in 1..Len(M) |-> IF cc = n THEN v[rr] ELSE M[rr][cc]]]

solve(M, v) ==
    [num |-> [n \in 1..Len(M) |-> Det(ReplaceCol(M, n, v))], den |-> Det(M)]

(* x_ = np.linalg.solve(A, b) *)
x_ ==
    solve([ii \in 1..size |-> [jj \in 1..size |-> A[ii - 1][jj - 1]]],
          [ii \in 1..size |-> b[ii - 1]])

(* u(x) = 1 + sum(xj*phi_j(x) ...) at the integer xv, times x_.den *)
u(xv) ==
    XAdd(x_.den,
         XSumSeq([n \in 1..size |-> XMul(x_.num[n], ApplyInt(basis[n][1], xv))], size))

(* |num/den - tn/td| <= 1 / 10^digits, for td > 0 *)
NearRatio(num, den, tn, td, digits) ==
    XLe(XMul(XAbs(XSub(XMul(num, FromInt(td)), XMul(FromInt(tn), den))), Ten(digits)),
        XMul(FromInt(td), XAbs(den)))

(* the coefficients 11, -1/2, 0, 0 of scenario 2 *)
expected_x == << <<11, 1>>, <<0 - 1, 2>>, <<0, 1>>, <<0, 1>> >>

(* C5: the system of the example has the solution x = (11, -1/2, 0, 0),    *)
(* the first two components to 1e-12 and the last two to 1e-13; the        *)
(* polynomial 1 + 11x - x^2/2 of those coefficients satisfies -u'' = 1,    *)
(* u(0) = 1 and u'(10) = 1; and the reconstructed u takes its values on    *)
(* [0, 10] to 1e-9.                                                        *)
C5_example_solution ==
    (pc = "done" /\ IsExample) =>
        /\ x_.den # Zero
        /\ NearRatio(x_.num[1], x_.den, expected_x[1][1], expected_x[1][2], 12)
        /\ NearRatio(x_.num[2], x_.den, expected_x[2][1], expected_x[2][2], 12)
        /\ NearRatio(x_.num[3], x_.den, expected_x[3][1], expected_x[3][2], 13)
        /\ NearRatio(x_.num[4], x_.den, expected_x[4][1], expected_x[4][2], 13)
        /\ 0 - 2 * expected_x[2][1] = expected_x[2][2]
        /\ expected_x[3][1] = 0
        /\ expected_x[4][1] = 0
        /\ expected_x[1][1] * expected_x[2][2] + 2 * expected_x[2][1] * L
              = d * expected_x[2][2]
        /\ u(0) = x_.den
        /\ \A xv \in {0, 5, L} :
              NearRatio(u(xv), x_.den, 2 * c + 22 * xv - xv * xv, 2, 9)

(* the example's system has been assembled and has one solution *)
C5_witness ==
    /\ pc = "done"
    /\ IsExample
    /\ x_.den # Zero
    /\ XLt(Zero, x_.num[1])
    /\ XLt(x_.num[2], Zero) # XLt(x_.den, Zero)


----------------------------------------------------------------------------
(* |x - y| <= |x| / 10^digits *)
RelClose(x, y, digits) == XLe(XMul(XAbs(XSub(x, y)), Ten(digits)), XAbs(x))

(* p and q are the constant functions 0 or 1, as in the example *)
UnitCoefficients == {p, q} \subseteq {Const(0), Const(1)}

(* C6, as amended: for coefficient functions p, q >= 0 on [0, L] the form  *)
(* a returned by weak_formulation is symmetric up to floating-point        *)
(* rounding: on the polynomial basis A[i][j] = a(phi_j, phi_i) and         *)
(* A[j][i] = a(phi_i, phi_j) differ by at most 1e-12 in relative value,    *)
(* and are equal when p and q are the constants 0 or 1.                    *)
C6_symmetric_to_rounding ==
    (pc = "done" /\ wf = "weak") =>
        \A ii \in Rows : \A jj \in Rows :
            /\ RelClose(A[ii][jj], A[jj][ii], 12)
            /\ UnitCoefficients => A[ii][jj] = A[jj][ii]

(* ritz has returned a matrix of the weak form whose entries (0, 1) and    *)
(* (1, 0) differ, by less than the tolerance                               *)
C6_witness ==
    /\ pc = "done"
    /\ wf = "weak"
    /\ size = 2
    /\ A[0][1] # A[1][0]
    /\ RelClose(A[0][1], A[1][0], 12)

(* C6, as stated: a(u, w, u', w') = a(w, u, w', u'), so the matrix that    *)
(* ritz assembles on the polynomial basis has A[i][j] = A[j][i].           *)
C6_symmetric_exactly ==
    (pc = "done" /\ wf = "weak") =>
        \A ii \in Rows : \A jj \in Rows : A[ii][jj] = A[jj][ii]

----------------------------------------------------------------------------
(* C7: in l the Neumann value d enters once, as the term d*w(L) added to   *)
(* an integral that does not depend on d; when r is identically 0 the      *)
(* integral is exactly 0 and l(w) = d*w(L) exactly; and the entries of A,  *)
(* the values of a, are those of an integral in which d does not occur.    *)
C7_neumann_term ==
    pc = "done" =>
        \A ii \in Rows :
            /\ b[ii] = FAdd(FromInt(d * L^(ii + 1)),
                            integrate(integration_points[order], <<0, L>>,
                                      [kind |-> "l_int", r |-> r,
                                       w |-> basis[ii + 1][1]]))
            /\ r = Const(0) =>
                  /\ integrator(<<0, L>>, l_integrand(basis[ii + 1][1])) = Zero
                  /\ b[ii] = FromInt(d * L^(ii + 1))
            /\ wf = "weak" =>
                  \A jj \in Rows :
                      A[ii][jj] =
                          integrate(integration_points[order], <<0, L>>,
                                    [kind |-> "a_int", p |-> p, q |-> q,
                                     u |-> basis[jj + 1][1],
                                     w |-> basis[ii + 1][1],
                                     du_dx |-> basis[jj + 1][2],
                                     dw_dx |-> basis[ii + 1][2]])

(* ritz has returned for r = 0 and d = 2, and b[1] is d*L^2 *)
C7_witness ==
    /\ pc = "done"
    /\ r = Const(0)
    /\ p # Const(0)
    /\ d = 2
    /\ size = 2
    /\ b[1] = FromInt(2 * L * L)

----------------------------------------------------------------------------
(* the points at which the basis functions are compared with x^k *)
Samples == {Zero, FHalf(FromInt(1)), FromInt(1), FromInt(2), FromInt(3)}

(* C8: the basis of size n is the sequence, for k = 1, ..., n in           *)
(* increasing order, of the pairs (x^k, k*x^(k-1)); every phi_k is 0 at 0; *)
(* and the pair at position k is the one of row and column k - 1 of the    *)
(* linear system.                                                          *)
C8_polynomial_basis ==
    pc # "basis" =>
        /\ Len(basis) = size
        /\ \A n \in 1..size :
              /\ Apply(basis[n][1], Zero) = Zero
              /\ ApplyInt(basis[n][1], 0) = Zero
              /\ \A x \in Samples :
                    /\ Apply(basis[n][1], x) = XPow(x, n)
                    /\ Apply(basis[n][2], x) = XMul(FromInt(n), XPow(x, n - 1))
              /\ basis[n] = polynomial_basis_function(n)
        /\ pc = "done" =>
              \A n \in 1..size :
                  /\ b[n - 1] = form_l([kind |-> "phi", k |-> n],
                                       [kind |-> "dphi", k |-> n])
                  /\ \A m \in 1..size :
                        A[n - 1][m - 1] =
                            form_a([kind |-> "phi", k |-> m], [kind |-> "phi", k |-> n],
                                   [kind |-> "dphi", k |-> m], [kind |-> "dphi", k |-> n])

(* the basis x, x^2, x^3, x^4 of the example has been built and used *)
C8_witness ==
    /\ pc = "done"
    /\ size = 4
    /\ Len(basis) = 4
    /\ Apply(basis[4][1], FromInt(2)) = FromInt(16)
    /\ Apply(basis[3][2], FromInt(2)) = FromInt(12)


----------------------------------------------------------------------------
(* the rule of the current order *)
Rule == integration_points[order]

Weights == [n \in 1..Len(Rule) |-> Rule[n][2]]

(* every abscissa of the rule is in [-1, 1] and every weight is > 0 *)
RuleInRange ==
    /\ Len(Rule) >= 1
    /\ \A n \in 1..Len(Rule) :
          /\ XLe(FromInt(0 - 1), Rule[n][1])
          /\ XLe(Rule[n][1], FromInt(1))
          /\ XLt(Zero, Rule[n][2])

(* C9, as amended: every rule of the table is a non-empty sequence of      *)
(* (abscissa, weight) pairs with every abscissa in [-1, 1] and every       *)
(* weight > 0, and its weights sum to 2 to within 1e-14 (the 15-digit      *)
(* weights of orders 5 and 7 do not sum to 2 exactly).                     *)
C9_rule_well_formed ==
    /\ RuleInRange
    /\ XLe(XMul(XAbs(XSub(XSumSeq(Weights, Len(Rule)), FromInt(2))), Ten(14)),
           FromInt(1))

(* the test cell has used the order-7 rule, whose weights sum to less than 2 *)
C9_witness ==
    /\ pc = "printed"
    /\ order = 7
    /\ Len(Rule) = 4
    /\ XLt(XSumSeq(Weights, Len(Rule)), FromInt(2))

(* C9, as stated: abscissae in [-1, 1], weights > 0, and the weights sum   *)
(* to 2 (here: their float sum, sum(w_k), is 2.0).                         *)
C9_weights_sum_to_2 ==
    /\ RuleInRange
    /\ SumFrom(Weights, 1, Zero) = FromInt(2)

----------------------------------------------------------------------------
(* C10: while ritz calls the forms a and l of weak_formulation, every      *)
(* point at which a coefficient or basis function is evaluated is in       *)
(* [0, L]; the map T of the domain (0, L) sends -1 to 0 and 1 to L.        *)
C10_evaluations_in_domain ==
    /\ \A x \in evals : XLe(Zero, x) /\ XLe(x, FromInt(L))
    /\ pc = "loop" =>
          /\ T(<<0, L>>, FromInt(0 - 1)) = Zero
          /\ T(<<0, L>>, FromInt(1)) = FromInt(L)

(* l has been called with the order-7 rule: w at L and the integrand at    *)
(* four points inside ]0, L[                                               *)
C10_witness ==
    /\ pc = "loop"
    /\ i = 1
    /\ order = 7
    /\ FromInt(L) \in evals
    /\ Cardinality(evals) = 5
    /\ \E x \in evals : XLt(Zero, x) /\ XLt(x, FromInt(L))


----------------------------------------------------------------------------
(* the error that a check of a < b would signal: control would leave the  *)
(* call there, with no value assigned                                      *)
InvalidDomain == "InvalidDomain"

(* integrate has been called on a domain (a, b) that does not have a < b *)
ReversedCall == pc # "test" /\ domain[1] >= domain[2]

(* ... and has returned *)
ReversedCase == ReversedCall /\ pc = "printed"

(* C11, as amended: integrate makes no check of its domain.  Called with   *)
(* (a, b) where a = b or a > b it signals no error and returns a float:    *)
(* exactly 0 when a = b, and when a > b the quadrature of f with the       *)
(* negative Jacobian (b-a)/2, which for a polynomial of degree at most the *)
(* order is minus the integral of f over [b, a], to floating-point         *)
(* rounding.                                                               *)
C11_reversed_domain_integrated ==
    ReversedCall =>
        /\ pc = "printed"
        /\ Evaluated(value)
        /\ domain[1] = domain[2] => value = Zero
        /\ (domain[1] > domain[2] /\ Degree(integrand) <= order) =>
              XLt(QuadError(integrand, domain, value),
                  XMul(FromInt(Factorial(TestDegrees)),
                       ScaleSum(Poly(integrand), domain, Len(Poly(integrand)))))

(* integrate has returned a negative number for x^2 on the domain (2, 0) *)
C11_witness ==
    /\ ReversedCase
    /\ domain = <<2, 0>>
    /\ integrand = [kind |-> "phi", k |-> 2]
    /\ order = 3
    /\ XLt(value, Zero)

(* C11, as stated: called with a domain that does not have a < b,          *)
(* integrate signals InvalidDomain at that call and returns no number.     *)
C11_invalid_domain_signalled == ReversedCall => pc = InvalidDomain


----------------------------------------------------------------------------
(* C12: called with an empty basis, ritz returns a 0-by-0 matrix and a     *)
(* length-0 vector: it signals no error (each step it reaches can be       *)
(* taken, up to its return) and it calls neither a nor l.                  *)
C12_empty_basis ==
    (size = 0 /\ pc # "basis") =>
        /\ basis = <<>>
        /\ pc \in {"ritz", "loop", "done"}
        /\ pc # "ritz" =>
              /\ A = <<>>
              /\ b = <<>>
              /\ DOMAIN A = {}
              /\ DOMAIN b = {}
              /\ calls = NoCalls
              /\ evals = {}
        /\ pc = "ritz" => ENABLED RitzInit
        /\ pc = "loop" =>
              /\ ENABLED RitzReturn
              /\ ~ENABLED RitzEntry
              /\ ~ENABLED RitzRhs

(* ritz has returned for the empty basis *)
C12_witness ==
    /\ size = 0
    /\ pc = "done"
    /\ A = <<>>
    /\ b = <<>>
    /\ calls = NoCalls


----------------------------------------------------------------------------
(* Two calls of weak_formulation that differ only in c: before anything is *)
(* assembled the caller hands in another Dirichlet value, and the values   *)
(* of the forms built for the previous one are kept in forms_before.       *)

(* the values of the forms a and l on the pairs of the polynomial basis *)
FormValues ==
    [a |-> [ii \in 1..size |-> [jj \in 1..size |->
               form_a(polynomial_basis_function(jj)[1], polynomial_basis_function(ii)[1],
                      polynomial_basis_function(jj)[2], polynomial_basis_function(ii)[2])]],
     l |-> [ii \in 1..size |->
               form_l(polynomial_basis_function(ii)[1], polynomial_basis_function(ii)[2])]]

ChangeC ==
    /\ pc = "basis"
    /\ c' \in {0, 1} \ {c}
    /\ forms_before' = [built |-> TRUE, a |-> FormValues.a, l |-> FormValues.l]
    /\ UNCHANGED <<L, p, q, r, d, order, wf, size, basis, pc, i, j, A, b, evals,
                   integrand, domain, value, calls>>

NextData == Next \/ ChangeC

SpecData == Init /\ [][NextData]_vars

(* the system that ritz has returned is made of the values of the forms *)
AssembledFromForms ==
    pc = "done" =>
        \A ii \in 1..size :
            /\ b[ii - 1] = FormValues.l[ii]
            /\ \A jj \in 1..size : A[ii - 1][jj - 1] = FormValues.a[ii][jj]

(* C13: c does not influence the forms built by weak_formulation: of two   *)
(* calls that differ only in c the forms a and l have the same values on   *)
(* all pairs of the basis, and the system ritz assembles is made of those  *)
(* values only, so it is the same for both.                                *)
C13_forms_independent_of_c ==
    /\ (forms_before.built /\ pc \in {"basis", "done"}) =>
          /\ forms_before.a = FormValues.a
          /\ forms_before.l = FormValues.l
    /\ AssembledFromForms

(* weak_formulation has been called for c = 0 and then for c = 1, with p   *)
(* not 0, and ritz has returned the system of the second call              *)
C13_witness ==
    /\ pc = "done"
    /\ forms_before.built
    /\ c = 1
    /\ p = Id
    /\ size = 2
    /\ wf = "weak"
    /\ A[1][1] = forms_before.a[2][2]
    /\ b[1] = forms_before.l[2]


----------------------------------------------------------------------------
(* the test cell has integrated x^m on an interval a < b with a rule of    *)
(* order less than m                                                       *)
UnderIntegrated ==
    /\ pc = "printed"
    /\ domain[1] < domain[2]
    /\ integrand.kind = "phi"
    /\ order < integrand.k

(* m is odd and the interval is [-b, b]: the integral is 0 and so is the   *)
(* sum of every rule, whose points and weights are symmetric               *)
OddOnSymmetric == integrand.k % 2 = 1 /\ domain[1] + domain[2] = 0

(* the error of the printed value, and of the value of the rule of order o *)
PrintedError == QuadError(integrand, domain, value)

ErrorAtOrder(o) ==
    QuadError(integrand, domain, integrate(integration_points[o], domain, integrand))

(* the bound under which C2 calls a value exact: 1e-10 * max(1,|a|,|b|)^(m+1) *)
RoundingBound ==
    XMul(FromInt(Factorial(TestDegrees)),
         ScaleSum(Poly(integrand), domain, Len(Poly(integrand))))

----------------------------------------------------------------------------
(* The entries in any order.  The loops of ritz visit the entries row by   *)
(* row; each iteration calls a or l on basis functions and stores the      *)
(* value at its own index, and reads neither A nor b.  An implementation   *)
(* that computes the entries in another order, or interleaved, takes the   *)
(* same iterations in another sequence: after the allocation any entry     *)
(* not computed yet may be the next.                                       *)

(* the largest basis assembled in any order *)
MaxAnySize == 2

OrderProblems ==
    [L : {3}, p : {Id}, q : {Const(1)}, r : {Const(1)}, c : {1}, d : {2},
     order : {1}, wf : {"weak", "transport"}, size : 0..MaxAnySize]

InitOrder ==
    /\ \E pb \in OrderProblems :
          /\ L = pb.L /\ p = pb.p /\ q = pb.q /\ r = pb.r
          /\ c = pb.c /\ d = pb.d
          /\ order = pb.order /\ wf = pb.wf /\ size = pb.size
    /\ basis = <<>>
    /\ pc = "basis"
    /\ i = 0
    /\ j = 0
    /\ A = <<>>
    /\ b = <<>>
    /\ evals = {}
    /\ integrand = None
    /\ domain = None
    /\ value = None
    /\ calls = NoCalls
    /\ forms_before = NoForms

(* n_dof = len(basis); A = np.empty((n_dof, n_dof)); b = np.empty(n_dof) *)
RitzInitAny ==
    /\ pc = "ritz"
    /\ A' = [ii \in 0..(n_dof - 1) |-> [jj \in 0..(n_dof - 1) |-> Empty]]
    /\ b' = [ii \in 0..(n_dof - 1) |-> Empty]
    /\ calls' = [a |-> [ii \in 0..(n_dof - 1) |-> [jj \in 0..(n_dof - 1) |-> 0]],
                 l |-> [ii \in 0..(n_dof - 1) |-> 0]]
    /\ pc' = "any"
    /\ UNCHANGED <<L, p, q, r, c, d, order, wf, size, basis, i, j, evals,
                   integrand, domain, value, forms_before>>

(* one iteration of the inner loop, for an entry of A not computed yet *)
AnyEntry ==
    /\ pc = "any"
    /\ \E ii \in 0..(n_dof - 1), jj \in 0..(n_dof - 1) :
          /\ calls.a[ii][jj] = 0
          /\ A' = [A EXCEPT ![ii][jj] = ritz_entry(ii, jj)]
          /\ calls' = [calls EXCEPT !.a[ii][jj] = @ + 1]
    /\ evals' = EvalPoints(integration_points[order], <<0, L>>)
    /\ UNCHANGED <<L, p, q, r, c, d, order, wf, size, basis, pc, i, j, b,
                   integrand, domain, value, forms_before>>

(* b[i] = l(...), for an entry of b not computed yet *)
AnyRhs ==
    /\ pc = "any"
    /\ \E ii \in 0..(n_dof - 1) :
          /\ calls.l[ii] = 0
          /\ b' = [b EXCEPT ![ii] = ritz_rhs(ii)]
          /\ calls' = [calls EXCEPT !.l[ii] = @ + 1]
    /\ evals' = {FromInt(L)} \cup EvalPoints(integration_points[order], <<0, L>>)
    /\ UNCHANGED <<L, p, q, r, c, d, order, wf, size, basis, pc, i, j, A,
                   integrand, domain, value, forms_before>>

(* return A, b: no iteration is left *)
AnyReturn ==
    /\ pc = "any"
    /\ \A ii \in 0..(n_dof - 1) :
          calls.l[ii] = 1 /\ \A jj \in 0..(n_dof - 1) : calls.a[ii][jj] = 1
    /\ pc' = "done"
    /\ UNCHANGED <<L, p, q, r, c, d, order, wf, size, basis, i, j, A, b, evals,
                   integrand, domain, value, calls, forms_before>>

NextOrder == Next \/ RitzInitAny \/ AnyEntry \/ AnyRhs \/ AnyReturn

SpecOrder == InitOrder /\ [][NextOrder]_vars

(* the calls of a and of l made so far *)
CallsOfA == {e \in Rows \X Rows : calls.a[e[1]][e[2]] = 1}

CallsOfL == {ii \in Rows : calls.l[ii] = 1}

(* C15: in the row-major loop of ritz and in every other order or          *)
(* interleaving of its iterations, each entry of A and of b is computed by *)
(* its own call of a or l: an entry no call was made for is still the      *)
(* unwritten one, no entry is called for twice, and on return exactly n*n  *)
(* calls of a and n calls of l were made, one per entry, and (A, b) holds  *)
(* the values of the forms on the basis functions of its indices, the same *)
(* for every order.                                                        *)
C15_entries_independent ==
    pc \in {"loop", "any", "done"} =>
        /\ \A ii \in Rows :
              /\ calls.l[ii] \in {0, 1}
              /\ calls.l[ii] = 0 => b[ii] = Empty
              /\ \A jj \in Rows :
                    /\ calls.a[ii][jj] \in {0, 1}
                    /\ calls.a[ii][jj] = 0 => A[ii][jj] = Empty
        /\ pc = "done" =>
              /\ Cardinality(CallsOfA) = size * size
              /\ Cardinality(CallsOfL) = size
              /\ AssembledFromForms

(* a transport problem assembled out of the row-major order: the loop      *)
(* indices never moved, and the matrix is not symmetric                    *)
C15_witness ==
    /\ pc = "done"
    /\ size = 2
    /\ wf = "transport"
    /\ i = 0
    /\ Cardinality(CallsOfA) = 4
    /\ Cardinality(CallsOfL) = 2
    /\ A[1][0] # A[0][1]
    /\ A[1][0] = FormValues.a[2][1]

====
